---- MODULE Spec2Model ----
(***************************************************************************)
(* Crime predictor: the Trainer (train_optimized.py) and the Predictor UI  *)
(* (app_optimized.py).                                                     *)
(*                                                                         *)
(* The Trainer is a script that runs top to bottom; it is modelled as a    *)
(* process whose steps are the statements that read or write files or can  *)
(* raise.  The UI is a Streamlit script: every interaction reruns it from  *)
(* the top, so one script run is one action.  The two share only the two   *)
(* artifact files on disk.                                                 *)
(*                                                                         *)
(* Text is a sequence of one-character strings, so that Python's sorted()  *)
(* on strings (lexicographic) and the substring test `in` are computed and *)
(* not assumed.  Probabilities are exact fractions: a vector of numerators *)
(* over one common denominator.                                            *)
(***************************************************************************)
EXTENDS Integers, Sequences, FiniteSets, TLC

VARIABLES
    disk,      \* the two artifact files: app_options.pkl, optimized_model.pkl
    tr,        \* the Trainer process
    cache,     \* the st.cache_resource entry of load_resources
    widgets,   \* the session's widget values
    view,      \* what the last script run rendered
    loads,     \* number of times load_resources read the files successfully
    label,     \* a predicted label, for the safety-tip selection on its own
    tip        \* its result

vars == <<disk, tr, cache, widgets, view, loads, label, tip>>

---------------------------------------------------------------------------
(* Bounds of the model *)

MaxRows == 3        \* rows in a dataset file
MaxRuns == 1        \* Trainer runs
MaxParts == 3       \* fragments concatenated into a label
NTrees == 2         \* trees of the forest (n_estimators=100 in the source)

---------------------------------------------------------------------------
(* Text *)

\* The characters used, in code-point order.
Alphabet == <<" ", "/", "0", "1", "2", "A", "B", "E", "F", "H", "L", "N", "O",
              "R", "S", "T", "U", "Y", "e", "f", "h", "t">>

CharRank(c) == CHOOSE i \in DOMAIN Alphabet : Alphabet[i] = c

\* Python's str < str.
RECURSIVE StrLess(_, _)
StrLess(a, b) ==
    IF b = <<>> THEN FALSE
    ELSE IF a = <<>> THEN TRUE
    ELSE IF Head(a) = Head(b) THEN StrLess(Tail(a), Tail(b))
    ELSE CharRank(Head(a)) < CharRank(Head(b))

\* Python's `sub in s` on strings.
Contains(s, sub) ==
    \E i \in 1..(Len(s) - Len(sub) + 1) : SubSeq(s, i, i + Len(sub) - 1) = sub

RECURSIVE Insert(_, _)
Insert(x, s) ==
    IF s = <<>> THEN <<x>>
    ELSE IF StrLess(x, Head(s)) THEN <<x>> \o s
    ELSE <<Head(s)>> \o Insert(x, Tail(s))

\* sorted(list of str)
RECURSIVE Sorted(_)
Sorted(s) == IF s = <<>> THEN <<>> ELSE Insert(Head(s), Sorted(Tail(s)))

\* Series.unique(): the distinct values in order of first appearance.
RECURSIVE Unique(_)
Unique(s) ==
    IF s = <<>> THEN <<>>
    ELSE LET front == Unique(SubSeq(s, 1, Len(s) - 1))
             x == s[Len(s)]
         IN  IF \E i \in DOMAIN front : front[i] = x THEN front
             ELSE Append(front, x)

Range(s) == {s[i] : i \in DOMAIN s}

RECURSIVE SumOver(_, _)
SumOver(f, S) ==
    IF S = {} THEN 0
    ELSE LET x == CHOOSE y \in S : TRUE IN f[x] + SumOver(f, S \ {x})

RECURSIVE ProdOver(_, _)
ProdOver(f, S) ==
    IF S = {} THEN 1
    ELSE LET x == CHOOSE y \in S : TRUE IN f[x] * ProdOver(f, S \ {x})

---------------------------------------------------------------------------
(* Dataset cells *)

THEFT   == <<"T", "H", "E", "F", "T">>
ROBBERY == <<"R", "O", "B", "B", "E", "R", "Y">>
ASSAULT == <<"A", "S", "S", "A", "U", "L", "T">>
ARSON   == <<"A", "R", "S", "O", "N">>

\* A missing value (NaN) of a text column is the empty cell; of the name
\* columns the cell "NaN"; of the hour column a cell of type nan.
NaText == <<>>
NaName == "NaN"
Num(h) == [t |-> "num", v |-> h]
NaHour == [t |-> "nan", v |-> 0]
TextHour == [t |-> "text", v |-> 0]   \* a non-numeric cell in HOUR_OF_DAY

features == <<"NEIGHBORHOOD_CLUSTER", "HOUR_OF_DAY", "DAY_OF_WEEK", "MONTH_NAME">>
target == "OFFENSE_GROUPED"
cat_cols == <<"NEIGHBORHOOD_CLUSTER", "DAY_OF_WEEK", "MONTH_NAME">>

Days == <<"Monday", "Tuesday", "Wednesday", "Thursday", "Friday", "Saturday",
          "Sunday">>
Months == <<"January", "February", "March", "April", "May", "June", "July",
            "August", "September", "October", "November", "December">>

Row(c, h, d, m, o) ==
    [NEIGHBORHOOD_CLUSTER |-> c, HOUR_OF_DAY |-> h, DAY_OF_WEEK |-> d,
     MONTH_NAME |-> m, OFFENSE_GROUPED |-> o]

IsNa(col, cell) ==
    CASE col = "HOUR_OF_DAY" -> cell.t = "nan"
      [] col \in {"DAY_OF_WEEK", "MONTH_NAME"} -> cell = NaName
      [] OTHER -> cell = NaText

---------------------------------------------------------------------------
(* Files: joblib.dump / joblib.load *)

\* An optional value: <<>> is None / no file, <<x>> is x.
None == <<>>
Some(x) == <<x>>

CompressLevel == 3

\* Pickling an object with the given attribute (or key) order writes its
\* items one after another; unpickling rebuilds the mapping from the items.
Pickle(obj, keys) == [i \in DOMAIN keys |-> <<keys[i], obj[keys[i]]>>]

Unpickle(items) ==
    [k \in {items[i][1] : i \in DOMAIN items} |->
        items[CHOOSE i \in DOMAIN items : items[i][1] = k][2]]

JoblibDump(obj, keys, compress) ==
    Some([compress |-> compress, pickled |-> Pickle(obj, keys)])

\* joblib.load of an existing file (FileNotFoundError is the caller's case).
JoblibLoad(file) == Unpickle(file[1].pickled)

OptionKeys == <<"clusters", "days", "months">>
PipelineKeys == <<"preprocess", "clf">>

---------------------------------------------------------------------------
(* Trainer: data preparation *)

Column(rows, col) == [i \in DOMAIN rows |-> rows[i][col]]

Complete(r) == \A col \in Range(features) \cup {target} : ~IsNa(col, r[col])

\* Variant: dropna(subset=features), the target left out.
dropna_features(rows) ==
    SelectSeq(rows, LAMBDA r : \A col \in Range(features) : ~IsNa(col, r[col]))

\* df.dropna(subset=features + [target])
dropna(rows) == SelectSeq(rows, Complete)

\* The option catalog built from the cleaned frame.
unique_values(df) ==
    [clusters |-> Sorted(Unique(Column(df, "NEIGHBORHOOD_CLUSTER"))),
     days |-> Days,
     months |-> Months]

TestPercent == 20

\* train_test_split(test_size=0.2): n_test = ceil(0.2 * n), the rest trains.
NTest(n) == (n * TestPercent + 99) \div 100
NTrain(n) == n - NTest(n)

\* The shuffle is fixed by random_state=42, but which rows land on the test
\* positions depends on the row order of the file: any test set of the right
\* size occurs for some ordering.
Splits(n) == {T \in SUBSET (1..n) : Cardinality(T) = NTest(n)}

---------------------------------------------------------------------------
(* The pipeline: OneHotEncoder + passthrough + RandomForestClassifier *)

\* Variant: the encoder's default, which raises on an unseen category.
HandleUnknownError == "error"

HandleUnknown == "ignore"

\* ColumnTransformer.fit: the encoder learns each categorical column's values.
FitPreprocessor(X) ==
    [handle_unknown |-> HandleUnknown,
     NEIGHBORHOOD_CLUSTER |-> Range(Column(X, "NEIGHBORHOOD_CLUSTER")),
     DAY_OF_WEEK |-> Range(Column(X, "DAY_OF_WEEK")),
     MONTH_NAME |-> Range(Column(X, "MONTH_NAME"))]

UnknownCols(pre, x) == {col \in Range(cat_cols) : x[col] \notin pre[col]}

\* transform raises on an unknown category only under handle_unknown="error";
\* the forest raises on an hour it cannot convert to a number.
TransformFails(pre, x) ==
    \/ pre.handle_unknown = "error" /\ UnknownCols(pre, x) # {}
    \/ x.HOUR_OF_DAY.t # "num"

\* One-hot block per categorical column as the set of its hot columns (empty:
\* the all-zero encoding of an unknown category); the hour passes through.
Transform(pre, x) ==
    [NEIGHBORHOOD_CLUSTER |->
        {c \in pre.NEIGHBORHOOD_CLUSTER : c = x.NEIGHBORHOOD_CLUSTER},
     DAY_OF_WEEK |-> {c \in pre.DAY_OF_WEEK : c = x.DAY_OF_WEEK},
     MONTH_NAME |-> {c \in pre.MONTH_NAME : c = x.MONTH_NAME},
     HOUR_OF_DAY |-> x.HOUR_OF_DAY.v]

IndexOf(s, x) == CHOOSE i \in DOMAIN s : s[i] = x

\* class_weight='balanced': a class's weight is inversely proportional to its
\* count in y; scaled to integers by the product of all counts.
BalancedWeights(classes, y) ==
    LET count == [c \in DOMAIN classes |->
                     Cardinality({i \in DOMAIN y : y[i] = classes[c]})]
    IN  [c \in DOMAIN classes |->
            ProdOver(count, DOMAIN classes \ {c})]

\* RandomForestClassifier.fit: classes_ is the sorted distinct labels; each
\* tree is grown on a bootstrap sample of the training rows (trees: the rows
\* each tree saw).
FitForest(Xenc, y, trees) ==
    LET classes == Sorted(Unique(y))
    IN  [classes_ |-> classes,
         weight |-> BalancedWeights(classes, y),
         X |-> Xenc,
         y |-> [i \in DOMAIN y |-> IndexOf(classes, y[i])],
         trees |-> trees]

\* The bootstrap draw is fixed by random_state=42 but not computed here: tree
\* t misses at most one training row, which one being left open through an
\* offset k (row 0: it misses none; a single row is always drawn).
BootstrapAt(n, k) ==
    [t \in 1..NTrees |-> IF n = 1 THEN {1} ELSE (1..n) \ {(t + k) % (n + 1)}]

Bootstraps(n) == {BootstrapAt(n, k) : k \in 0..n}

\* Pipeline.fit(X_train, y_train)
Fit(train, trees) ==
    LET pre == FitPreprocessor(train)
    IN  [preprocess |-> pre,
         clf |-> FitForest([i \in DOMAIN train |-> Transform(pre, train[i])],
                           Column(train, target), trees)]

Dist(a, b) ==
    Cardinality({col \in DOMAIN a : a[col] # b[col]})

\* The leaf a fully grown tree sends x to holds the rows of its sample that x
\* cannot be told apart from: the rows nearest to x.
Leaf(clf, t, e) ==
    {i \in clf.trees[t] :
        \A j \in clf.trees[t] : Dist(clf.X[i], e) <= Dist(clf.X[j], e)}

\* A tree's class values at x: weighted class counts of the leaf.
TreeValue(clf, t, e) ==
    [c \in DOMAIN clf.classes_ |->
        Cardinality({i \in Leaf(clf, t, e) : clf.y[i] = c}) * clf.weight[c]]

\* ForestClassifier.predict_proba: the mean of the trees' normalised values,
\* as numerators over the common denominator den.
ForestProba(clf, e) ==
    LET T == DOMAIN clf.trees
        v == [t \in T |-> TreeValue(clf, t, e)]
        V == [t \in T |-> SumOver(v[t], DOMAIN clf.classes_)]
    IN  [num |-> [c \in DOMAIN clf.classes_ |->
                    SumOver([t \in T |-> v[t][c] * ProdOver(V, T \ {t})], T)],
         den |-> Cardinality(T) * ProdOver(V, T)]

\* np.argmax: the first index holding the maximum.
ArgMax(f) ==
    CHOOSE i \in DOMAIN f :
        /\ \A j \in DOMAIN f : f[j] <= f[i]
        /\ \A j \in DOMAIN f : j < i => f[j] < f[i]

\* Variant: hard voting, each tree voting for its own best class.
ForestPredictMajority(clf, e) ==
    LET T == DOMAIN clf.trees
        votes == [c \in DOMAIN clf.classes_ |->
                    Cardinality({t \in T : ArgMax(TreeValue(clf, t, e)) = c})]
    IN  clf.classes_[ArgMax(votes)]

\* ForestClassifier.predict: classes_.take(argmax(predict_proba)).
ForestPredict(clf, e) == clf.classes_[ArgMax(ForestProba(clf, e).num)]

\* Pipeline.predict / Pipeline.predict_proba on one row.
predict(model, x) == ForestPredict(model.clf, Transform(model.preprocess, x))
predict_proba(model, x) == ForestProba(model.clf, Transform(model.preprocess, x))

---------------------------------------------------------------------------
(* Dataset files the Trainer may find *)

Cl1 == <<"1">>
Cl10 == <<"1", "0">>
Cl2 == <<"2">>

\* Rows of a dataset: complete ones, one with each field missing, and one
\* whose hour cell holds text.
RowPool ==
    { Row(Cl1, Num(0), "Monday", "January", THEFT),
      Row(Cl2, Num(0), "Monday", "January", THEFT),
      Row(Cl2, Num(0), "Monday", "January", ROBBERY),
      Row(Cl10, Num(23), "Friday", "December", ASSAULT),
      Row(NaText, Num(0), "Monday", "January", THEFT),
      Row(Cl10, NaHour, "Monday", "January", THEFT),
      Row(Cl1, Num(0), NaName, "January", ROBBERY),
      Row(Cl1, Num(0), "Monday", NaName, ROBBERY),
      Row(Cl10, Num(0), "Monday", "January", NaText),
      Row(Cl2, TextHour, "Monday", "January", THEFT) }

Tables(pool, n) == UNION {[1..k -> pool] : k \in 0..n}

\* data.xlsx: absent, not a readable workbook, a workbook lacking one of the
\* used columns, or a table.
BadFiles == {[status |-> st, rows |-> <<>>] :
                st \in {"missing", "unreadable", "no_column"}}

DataFiles == BadFiles \cup {[status |-> "ok", rows |-> t] : t \in Tables(RowPool, MaxRows)}

---------------------------------------------------------------------------
(* Trainer process *)

NoFiles == [options |-> None, model |-> None]

TrainerIdle(d) ==
    [pc |-> "idle", runs |-> 0, status |-> "none", raw |-> <<>>, df |-> <<>>,
     test |-> {}, model |-> None, acc |-> <<0, 0>>, before |-> d, wrote |-> {}]

UIVars == <<cache, widgets, view, loads>>
TipVars == <<label, tip>>

Rest(seq, drop) ==
    LET keep == {i \in DOMAIN seq : i \notin drop}
        F[i \in 0..Len(seq)] ==
            IF i = 0 THEN <<>>
            ELSE IF i \in keep THEN Append(F[i - 1], seq[i]) ELSE F[i - 1]
    IN  F[Len(seq)]

X_train(t) == Rest(t.df, t.test)
X_test(t) == Rest(t.df, DOMAIN t.df \ t.test)

Begin(t, f, d) ==
    [TrainerIdle(d) EXCEPT !.runs = t.runs + 1, !.status = f.status]

\* Lines 10-23: read_excel, dropna, X and y.
LoadData(files, maxRuns) ==
    /\ tr.pc \in {"idle", "done", "failed"}
    /\ tr.runs < maxRuns
    /\ \E f \in files :
        /\ f.status = "ok"
        /\ tr' = [Begin(tr, f, disk) EXCEPT !.pc = "loaded", !.raw = f.rows,
                                             !.df = dropna(f.rows)]
    /\ UNCHANGED <<disk, UIVars, TipVars>>

\* Variant: the failure is caught and an empty catalog written as a fallback.
FailLoadFallback(files, maxRuns) ==
    /\ tr.pc \in {"idle", "done", "failed"}
    /\ tr.runs < maxRuns
    /\ \E f \in files :
        /\ f.status # "ok"
        /\ tr' = [Begin(tr, f, disk) EXCEPT !.pc = "failed"]
    /\ disk' = [disk EXCEPT
                  !.options = JoblibDump(unique_values(<<>>), OptionKeys, 0)]
    /\ UNCHANGED <<UIVars, TipVars>>

\* read_excel raises (no file, not a workbook) or dropna raises KeyError (a
\* used column is absent): the script ends with the traceback.
FailLoad(files, maxRuns) ==
    /\ tr.pc \in {"idle", "done", "failed"}
    /\ tr.runs < maxRuns
    /\ \E f \in files :
        /\ f.status # "ok"
        /\ tr' = [Begin(tr, f, disk) EXCEPT !.pc = "failed"]
    /\ UNCHANGED <<disk, UIVars, TipVars>>

\* Lines 25-33: build the option catalog and dump it.
SaveOptions ==
    /\ tr.pc = "loaded"
    /\ disk' = [disk EXCEPT
                  !.options = JoblibDump(unique_values(tr.df), OptionKeys, 0)]
    /\ tr' = [tr EXCEPT !.pc = "options_saved",
                         !.wrote = tr.wrote \cup {"options"}]
    /\ UNCHANGED <<UIVars, TipVars>>

\* Line 56: train_test_split.
Split ==
    /\ tr.pc = "options_saved"
    /\ NTrain(Len(tr.df)) > 0
    /\ \E T \in Splits(Len(tr.df)) :
        tr' = [tr EXCEPT !.pc = "split", !.test = T]
    /\ UNCHANGED <<disk, UIVars, TipVars>>

\* train_test_split raises ValueError when the train set would be empty.
FailSplit ==
    /\ tr.pc = "options_saved"
    /\ NTrain(Len(tr.df)) <= 0
    /\ tr' = [tr EXCEPT !.pc = "failed"]
    /\ UNCHANGED <<disk, UIVars, TipVars>>

NumericHours(rows) == \A i \in DOMAIN rows : rows[i].HOUR_OF_DAY.t = "num"

\* Variant: the pipeline dumped right after fit (the commented-out line 60).
FitModelAndSave ==
    /\ tr.pc = "split"
    /\ NumericHours(X_train(tr))
    /\ \E trees \in Bootstraps(Len(X_train(tr))) :
        /\ tr' = [tr EXCEPT !.pc = "fitted",
                            !.model = Some(Fit(X_train(tr), trees)),
                            !.wrote = tr.wrote \cup {"model"}]
        /\ disk' = [disk EXCEPT
                      !.model = JoblibDump(Fit(X_train(tr), trees), PipelineKeys,
                                           CompressLevel)]
    /\ UNCHANGED <<UIVars, TipVars>>

\* Line 57: model.fit(X_train, y_train).
FitModel ==
    /\ tr.pc = "split"
    /\ NumericHours(X_train(tr))
    /\ \E trees \in Bootstraps(Len(X_train(tr))) :
        tr' = [tr EXCEPT !.pc = "fitted",
                         !.model = Some(Fit(X_train(tr), trees))]
    /\ UNCHANGED <<disk, UIVars, TipVars>>

\* fit raises ValueError on an hour that is not a number.
FailFit ==
    /\ tr.pc = "split"
    /\ ~NumericHours(X_train(tr))
    /\ tr' = [tr EXCEPT !.pc = "failed"]
    /\ UNCHANGED <<disk, UIVars, TipVars>>

CanScore(t) ==
    \A i \in DOMAIN X_test(t) :
        ~TransformFails(t.model[1].preprocess, X_test(t)[i])

\* Lines 62-70: predict the test split, report accuracy and the report.
Evaluate ==
    /\ tr.pc = "fitted"
    /\ CanScore(tr)
    /\ LET Xt == X_test(tr)
           hit == {i \in DOMAIN Xt :
                     predict(tr.model[1], Xt[i]) = Xt[i].OFFENSE_GROUPED}
       IN  tr' = [tr EXCEPT !.pc = "evaluated",
                            !.acc = <<Cardinality(hit), Len(Xt)>>]
    /\ UNCHANGED <<disk, UIVars, TipVars>>

\* model.predict(X_test) raises.
FailEvaluate ==
    /\ tr.pc = "fitted"
    /\ ~CanScore(tr)
    /\ tr' = [tr EXCEPT !.pc = "failed"]
    /\ UNCHANGED <<disk, UIVars, TipVars>>

\* Line 73: dump the fitted pipeline, compressed.
SaveModel ==
    /\ tr.pc = "evaluated"
    /\ disk' = [disk EXCEPT
                  !.model = JoblibDump(tr.model[1], PipelineKeys, CompressLevel)]
    /\ tr' = [tr EXCEPT !.pc = "done", !.wrote = tr.wrote \cup {"model"}]
    /\ UNCHANGED <<UIVars, TipVars>>

TrainerStep(files, maxRuns) ==
    \/ LoadData(files, maxRuns)
    \/ FailLoad(files, maxRuns)
    \/ SaveOptions
    \/ Split
    \/ FailSplit
    \/ FitModel
    \/ FailFit
    \/ Evaluate
    \/ FailEvaluate
    \/ SaveModel

---------------------------------------------------------------------------
(* Predictor UI *)

NoView == [kind |-> "none"]

MissingArtifact(d) == d.model = None \/ d.options = None

\* Variant: a missing options file is papered over with an empty catalog.
load_resources_partial(c, d) ==
    IF c # None THEN [ok |-> TRUE, read |-> FALSE, pair |-> c]
    ELSE IF d.model = None THEN [ok |-> FALSE, read |-> FALSE, pair |-> None]
    ELSE [ok |-> TRUE, read |-> TRUE,
          pair |-> Some([model |-> JoblibLoad(d.model),
                         options |-> IF d.options = None
                                     THEN [clusters |-> <<>>, days |-> Days,
                                           months |-> Months]
                                     ELSE JoblibLoad(d.options)])]

\* Variant: no st.cache_resource, the files are read in every run.
load_resources_uncached(c, d) ==
    IF MissingArtifact(d) THEN [ok |-> FALSE, read |-> FALSE, pair |-> None]
    ELSE [ok |-> TRUE, read |-> TRUE,
          pair |-> Some([model |-> JoblibLoad(d.model),
                         options |-> JoblibLoad(d.options)])]

\* load_resources under st.cache_resource: a cached entry is returned without
\* running the body; the body loads both files, and FileNotFoundError from
\* either load ends in st.error + st.stop, which caches nothing.
load_resources(c, d) ==
    IF c # None THEN [ok |-> TRUE, read |-> FALSE, pair |-> c]
    ELSE IF MissingArtifact(d) THEN [ok |-> FALSE, read |-> FALSE, pair |-> None]
    ELSE [ok |-> TRUE, read |-> TRUE,
          pair |-> Some([model |-> JoblibLoad(d.model),
                         options |-> JoblibLoad(d.options)])]

HourMin == 0
HourMax == 23
HourDefault == 12

\* First render of the sidebar: selectbox index 0 (None on an empty list),
\* slider value 12.
DefaultWidgets(options) ==
    [cluster |-> IF options.clusters = <<>> THEN NaText ELSE options.clusters[1],
     day |-> options.days[1],
     month |-> options.months[1],
     hour |-> HourDefault,
     predict_btn |-> FALSE]

\* Lines 123-128: the single-row frame.
input_data(w) == Row(w.cluster, Num(w.hour), w.day, w.month, NaText)

\* Variant: the robbery test placed before the theft test.
SafetyTipRobberyFirst(prediction) ==
    IF Contains(prediction, ROBBERY) THEN "robbery"
    ELSE IF Contains(prediction, THEFT) THEN "theft"
    ELSE IF Contains(prediction, ASSAULT) THEN "assault"
    ELSE "generic"

\* Lines 151-158: the tip chosen for a predicted label.
SafetyTip(prediction) ==
    IF Contains(prediction, THEFT) THEN "theft"
    ELSE IF Contains(prediction, ROBBERY) THEN "robbery"
    ELSE IF Contains(prediction, ASSAULT) THEN "assault"
    ELSE "generic"

Max(f) == CHOOSE m \in Range(f) : \A j \in DOMAIN f : f[j] <= m

\* sort_values(by="Probability", ascending=True) over the class rows.
RECURSIVE InsertRow(_, _)
InsertRow(r, s) ==
    IF s = <<>> THEN <<r>>
    ELSE IF r.pct < Head(s).pct THEN <<r>> \o s
    ELSE <<Head(s)>> \o InsertRow(r, Tail(s))

RECURSIVE SortRows(_)
SortRows(s) ==
    IF s = <<>> THEN <<>>
    ELSE InsertRow(s[Len(s)], SortRows(SubSeq(s, 1, Len(s) - 1)))

\* Lines 121-191: the prediction branch.  An exception raised by the pipeline
\* is shown by the framework in place of the result.
PredictionView(model, w) ==
    LET x == input_data(w)
    IN  IF TransformFails(model.preprocess, x) THEN [kind |-> "exception"]
        ELSE LET probs == predict_proba(model, x)
                 classes == model.clf.classes_
             IN  [kind |-> "prediction",
                  input |-> x,
                  prediction |-> predict(model, x),
                  classes |-> classes,
                  probs |-> probs,
                  max_prob |-> Max(probs.num) * 100,
                  tip |-> SafetyTip(predict(model, x)),
                  chart |-> SortRows([c \in DOMAIN classes |->
                                [crime |-> classes[c],
                                 pct |-> probs.num[c] * 100]])]

\* Variant: the last result is kept (as in session state) and shown again
\* when the button was not pressed.
MainContentSticky(model, w, old) ==
    IF w.predict_btn THEN PredictionView(model, w)
    ELSE IF old.kind = "prediction" THEN old
    ELSE [kind |-> "landing"]

\* Lines 121 and 193: the main area of one script run (old: what the previous
\* run showed, which the script keeps nowhere).
MainContent(model, w, old) ==
    IF w.predict_btn THEN PredictionView(model, w) ELSE [kind |-> "landing"]

\* One run of the script with the sidebar values w (None before the first
\* render); st.button returns btn: TRUE only in the run its click triggers.
ScriptRun(w, btn) ==
    LET res == load_resources(cache, disk)
    IN  IF ~res.ok
        THEN /\ view' = [kind |-> "error"]
             /\ UNCHANGED <<cache, widgets, loads>>
        ELSE LET shown == IF w = None
                          THEN DefaultWidgets(res.pair[1].options) ELSE w[1]
                 now == [shown EXCEPT !.predict_btn = btn]
             IN  /\ cache' = res.pair
                 /\ loads' = IF res.read /\ loads < 2 THEN loads + 1 ELSE loads
                 /\ widgets' = Some(now)
                 /\ view' = MainContent(res.pair[1].model, now, view)

\* The page is opened or rerun with nothing changed.
Rerun ==
    /\ ScriptRun(widgets, FALSE)
    /\ UNCHANGED <<disk, tr, TipVars>>

\* The user changes one sidebar control; the framework reruns the script.
ChangeWidget(choice) ==
    /\ widgets # None
    /\ view.kind # "error"
    /\ LET w == widgets[1]
           options == cache[1].options
       IN  \E new \in
               {[w EXCEPT !.cluster = c] : c \in Range(options.clusters)}
               \cup {[w EXCEPT !.day = x] : x \in Range(options.days) \cap choice.days}
               \cup {[w EXCEPT !.month = x] :
                        x \in Range(options.months) \cap choice.months}
               \cup {[w EXCEPT !.hour = h] : h \in (HourMin..HourMax) \cap choice.hours} :
               /\ [new EXCEPT !.predict_btn = FALSE] # [w EXCEPT !.predict_btn = FALSE]
               /\ ScriptRun(Some(new), FALSE)
    /\ UNCHANGED <<disk, tr, TipVars>>

\* The user presses "Analyze Risk".
ClickButton ==
    /\ widgets # None
    /\ view.kind # "error"
    /\ ScriptRun(widgets, TRUE)
    /\ UNCHANGED <<disk, tr, TipVars>>

UIStep(choice) ==
    \/ Rerun
    \/ ChangeWidget(choice)
    \/ ClickButton

AnyChoice == [days |-> Range(Days), months |-> Range(Months),
              hours |-> HourMin..HourMax]

---------------------------------------------------------------------------
(* Specifications *)

InitUI ==
    /\ cache = None
    /\ widgets = None
    /\ view = NoView
    /\ loads = 0

InitTip ==
    /\ label = <<>>
    /\ tip = "none"

\* Artifacts left by an earlier, complete Trainer run.
StaleTable ==
    << Row(Cl1, Num(0), "Monday", "January", THEFT),
       Row(Cl2, Num(23), "Friday", "December", ROBBERY) >>

ArtifactsOf(table, test, trees) ==
    LET df == dropna(table)
    IN  [options |-> JoblibDump(unique_values(df), OptionKeys, 0),
         model |-> JoblibDump(Fit(Rest(df, test), trees), PipelineKeys,
                              CompressLevel)]

StaleFiles == ArtifactsOf(StaleTable, {2}, [t \in 1..NTrees |-> {1}])

\* One Trainer run, started in an empty directory or over earlier artifacts.
InitTrainer ==
    /\ disk \in {NoFiles, StaleFiles}
    /\ tr = TrainerIdle(disk)
    /\ InitUI
    /\ InitTip

NextTrainer == TrainerStep(DataFiles, 1)

SpecTrainer == InitTrainer /\ [][NextTrainer]_vars

---------------------------------------------------------------------------
(* The UI alone over artifacts of completed Trainer runs, every control at  *)
(* its full range.                                                          *)

Completes(table, test, trees) ==
    LET df == dropna(table)
        train == Rest(df, test)
        held == Rest(df, DOMAIN df \ test)
    IN  /\ test \in Splits(Len(df))
        /\ NTrain(Len(df)) > 0
        /\ NumericHours(train)
        /\ trees \in Bootstraps(Len(train))
        /\ \A i \in DOMAIN held :
              ~TransformFails(Fit(train, trees).preprocess, held[i])

MixedTable ==
    << Row(Cl2, Num(0), "Monday", "January", THEFT),
       Row(Cl2, Num(0), "Monday", "January", ROBBERY),
       Row(Cl10, Num(23), "Friday", "December", ASSAULT),
       Row(Cl1, NaHour, "Monday", "January", THEFT) >>

\* Trainer runs over two tables, with every split.
UIRuns ==
    UNION {{<<table, test, BootstrapAt(NTrain(Len(dropna(table))), 1)>> :
                test \in Splits(Len(dropna(table)))} :
           table \in {StaleTable, MixedTable}}

UIDisks ==
    {ArtifactsOf(r[1], r[2], r[3]) : r \in {q \in UIRuns : Completes(q[1], q[2], q[3])}}

InitPredictor ==
    /\ disk \in UIDisks
    /\ tr = TrainerIdle(disk)
    /\ InitUI
    /\ InitTip

NextPredictor == UIStep(AnyChoice)

SpecUI == InitPredictor /\ [][NextPredictor]_vars

---------------------------------------------------------------------------
(* The whole system: Trainer runs and UI script runs interleaved.          *)

TextTable == Row(Cl2, TextHour, "Monday", "January", ROBBERY)

SmallFiles ==
    { [status |-> "missing", rows |-> <<>>],
      [status |-> "ok", rows |-> MixedTable],
      [status |-> "ok", rows |-> <<MixedTable[4]>>],
      [status |-> "ok", rows |-> <<StaleTable[1], TextTable>>] }

FewChoices == [days |-> {"Sunday"}, months |-> {"December"}, hours |-> {HourMax}]

ModelOnly == [StaleFiles EXCEPT !.options = None]

Init ==
    /\ disk \in {NoFiles, ModelOnly, StaleFiles}
    /\ tr = TrainerIdle(disk)
    /\ InitUI
    /\ InitTip

Next == TrainerStep(SmallFiles, MaxRuns) \/ UIStep(FewChoices)

Spec == Init /\ [][Next]_vars

---------------------------------------------------------------------------
(* Safety-tip selection on its own, over labels built from fragments.       *)

Fragments ==
    { THEFT, ROBBERY, ASSAULT, ARSON, <<"T", "H", "E", "F">>, <<"T">>,
      <<"/">>, <<"t", "h", "e", "f", "t">> }

RECURSIVE Concat(_)
Concat(parts) == IF parts = <<>> THEN <<>> ELSE Head(parts) \o Concat(Tail(parts))

Labels == {Concat(p) : p \in Tables(Fragments, MaxParts)}

InitLabel ==
    /\ disk = NoFiles
    /\ tr = TrainerIdle(NoFiles)
    /\ InitUI
    /\ label \in Labels
    /\ tip = "none"

ShowTip ==
    /\ tip = "none"
    /\ tip' = SafetyTip(label)
    /\ UNCHANGED <<label, disk, tr, UIVars>>

SpecTip == InitLabel /\ [][ShowTip]_vars

---------------------------------------------------------------------------
(* Properties *)

\* C1: every button activation ends without an exception and shows one label
\* of the loaded pipeline's class list, with one non-negative probability per
\* class, the probabilities summing to 1 (the chart's percentages to 100).
C1_PredictionWellFormed ==
    /\ view.kind # "exception"
    /\ view.kind = "prediction" =>
        LET classes == cache[1].model.clf.classes_
            p == view.probs
        IN  /\ view.input.NEIGHBORHOOD_CLUSTER \in Range(cache[1].options.clusters)
            /\ view.input.HOUR_OF_DAY.v \in 0..23
            /\ \E i \in DOMAIN classes : view.prediction = classes[i]
            /\ view.classes = classes
            /\ DOMAIN p.num = DOMAIN classes
            /\ \A c \in DOMAIN classes : p.num[c] >= 0
            /\ p.den > 0
            /\ SumOver(p.num, DOMAIN classes) = p.den
            /\ Len(view.chart) = Len(classes)
            /\ SumOver([i \in DOMAIN view.chart |-> view.chart[i].pct],
                       DOMAIN view.chart) = 100 * p.den

\* A prediction at the hour boundary 23 for a cluster of the catalog that the
\* encoder never saw, on a day it never saw.
C1_Witness ==
    /\ view.kind = "prediction"
    /\ view.input.HOUR_OF_DAY.v = 23
    /\ view.input.DAY_OF_WEEK = "Sunday"
    /\ view.input.NEIGHBORHOOD_CLUSTER
          \notin cache[1].model.preprocess.NEIGHBORHOOD_CLUSTER

\* C2: the displayed label is a class of maximal probability, and the
\* confidence shown is that label's probability (as a percentage).
C2_LabelIsArgMax ==
    view.kind = "prediction" =>
        \E i \in DOMAIN view.classes :
            /\ view.classes[i] = view.prediction
            /\ \A j \in DOMAIN view.classes : view.probs.num[j] <= view.probs.num[i]
            /\ view.max_prob = view.probs.num[i] * 100

\* A prediction over at least two classes where the trees disagree: the top
\* probability is neither 0 nor 1.
C2_Witness ==
    /\ view.kind = "prediction"
    /\ Len(view.classes) >= 2
    /\ \E i \in DOMAIN view.classes :
          /\ view.classes[i] = view.prediction
          /\ view.probs.num[i] < view.probs.den
          /\ \E j \in DOMAIN view.classes : j # i /\ view.probs.num[j] > 0

\* C3: the tip follows the fixed priority theft, robbery, assault, generic,
\* and every label gets exactly one of the four tips.
C3_TipPriority ==
    tip # "none" =>
        /\ tip \in {"theft", "robbery", "assault", "generic"}
        /\ Contains(label, THEFT) => tip = "theft"
        /\ (~Contains(label, THEFT) /\ Contains(label, ROBBERY)) => tip = "robbery"
        /\ (~Contains(label, THEFT) /\ ~Contains(label, ROBBERY)
              /\ Contains(label, ASSAULT)) => tip = "assault"
        /\ (~Contains(label, THEFT) /\ ~Contains(label, ROBBERY)
              /\ ~Contains(label, ASSAULT)) => tip = "generic"

\* A label naming robbery first and theft second gets the theft tip.
C3_Witness ==
    /\ label = ROBBERY \o <<"/">> \o THEFT
    /\ tip = "theft"

\* C4: every cluster of the written catalog is a category the fitted encoder
\* learned.
C4_CatalogKnownToEncoder ==
    (tr.model # None /\ "options" \in tr.wrote) =>
        Range(JoblibLoad(disk.options).clusters)
            \subseteq tr.model[1].preprocess.NEIGHBORHOOD_CLUSTER

\* C5: a script run that starts with nothing cached and an artifact missing
\* shows the error and stops: nothing is cached, no control is rendered, no
\* file counts as loaded.
C5_MissingArtifactHalts ==
    [][(tr' = tr /\ disk' = disk /\ cache = None /\ MissingArtifact(disk))
          => (view'.kind = "error" /\ cache' = None /\ widgets' = None
                /\ loads' = loads)]_vars

\* The pipeline file is there, the options file is not, and the run halted.
C5_Witness ==
    /\ view.kind = "error"
    /\ disk.model # None
    /\ disk.options = None
    /\ cache = None
    /\ widgets = None

\* C6: the files are read at most once; once loaded the cached pair never
\* changes and no later run reads the files.
C6_LoadedOnce ==
    [][/\ cache # None => (cache' = cache /\ loads' = loads)
       /\ loads' <= 1]_vars

\* A prediction served from the cache after the Trainer replaced the options
\* file on disk.
C6_Witness ==
    /\ cache # None
    /\ loads = 1
    /\ view.kind = "prediction"
    /\ disk.options # None
    /\ JoblibLoad(disk.options) # cache[1].options

\* C7: a prediction is shown only in a run the button triggered, and it is
\* the prediction of the cached pipeline for the four values of that run; a
\* run not triggered by the button shows the landing page.
C7_NoCarriedResult ==
    /\ view.kind = "prediction" =>
        /\ widgets[1].predict_btn
        /\ view.input = input_data(widgets[1])
        /\ view.prediction = predict(cache[1].model, input_data(widgets[1]))
        /\ view.probs = predict_proba(cache[1].model, input_data(widgets[1]))
    /\ (view.kind \in {"landing", "prediction"} /\ ~widgets[1].predict_btn)
          => view.kind = "landing"

\* The landing page, with the controls moved away from their defaults.
C7_Witness ==
    /\ view.kind = "landing"
    /\ widgets[1].hour = 23
    /\ widgets[1].day = "Sunday"
    /\ widgets[1].month = "December"

AllPresent(r) ==
    /\ r.NEIGHBORHOOD_CLUSTER # <<>>
    /\ r.HOUR_OF_DAY.t # "nan"
    /\ r.DAY_OF_WEEK # "NaN"
    /\ r.MONTH_NAME # "NaN"
    /\ r.OFFENSE_GROUPED # <<>>

\* C9: the catalog read back has the seven days and twelve months in order,
\* and its clusters are the strictly ascending list of the clusters of the
\* rows that have all five used fields.
C9_CatalogRoundTrip ==
    "options" \in tr.wrote =>
        LET o == JoblibLoad(disk.options)
        IN  /\ o.days = <<"Monday", "Tuesday", "Wednesday", "Thursday", "Friday",
                          "Saturday", "Sunday">>
            /\ o.months = <<"January", "February", "March", "April", "May",
                            "June", "July", "August", "September", "October",
                            "November", "December">>
            /\ \A i, j \in DOMAIN o.clusters :
                  i < j => StrLess(o.clusters[i], o.clusters[j])
            /\ Range(o.clusters) =
                  {tr.raw[i].NEIGHBORHOOD_CLUSTER :
                      i \in {k \in DOMAIN tr.raw : AllPresent(tr.raw[k])}}

\* The catalog lists "10" before "2"; cluster "1", which the file has only in
\* incomplete rows, is not listed.
C9_Witness ==
    /\ "options" \in tr.wrote
    /\ JoblibLoad(disk.options).clusters = <<Cl10, Cl2>>
    /\ \E i \in DOMAIN tr.raw : tr.raw[i].NEIGHBORHOOD_CLUSTER = Cl1

\* C10: past the split the options file of this run is written; the pipeline
\* file is written only by a run that fitted and scored, after its options
\* file, both from the same cleaned frame; a failed run wrote no pipeline.
C10_ArtifactOrder ==
    /\ tr.pc \in {"split", "fitted", "evaluated", "done"} => "options" \in tr.wrote
    /\ "model" \in tr.wrote =>
        /\ tr.pc = "done"
        /\ "options" \in tr.wrote
        /\ JoblibLoad(disk.options).clusters =
              Sorted(Unique(Column(tr.df, "NEIGHBORHOOD_CLUSTER")))
        /\ tr.model # None
        /\ JoblibLoad(disk.model) = tr.model[1]
        /\ tr.acc[2] = Cardinality(tr.test)
        /\ tr.acc[2] > 0
    /\ tr.pc = "failed" =>
        /\ "model" \notin tr.wrote
        /\ disk.model = tr.before.model

\* A run that fitted its pipeline and then failed scoring the test split.
C10_Witness ==
    /\ tr.pc = "failed"
    /\ tr.model # None
    /\ "options" \in tr.wrote
    /\ disk.model = None

====
